---- MODULE Spec2Model ----
(***************************************************************************)
(* Browser pool of server.js: the shared puppeteer browser (getBrowser),   *)
(* the admission counter (waitForBrowserSlot / releaseBrowserSlot), the    *)
(* fetch operation (fetchMultiUpPage) with its Cloudflare recovery, the    *)
(* 'disconnected' handler, the periodic page reconciliation, the pre-warm  *)
(* at startup, gracefulShutdown with the handlers that call it, and the     *)
(* stream handler (handleStreamRequest) with the stream cache of cache.js, *)
(* which calls fetchMultiUpPage through extractHosterLinks.                *)
(*                                                                         *)
(* Execution model.  Node runs one turn at a time: the code between two    *)
(* suspension points is one atomic step.  Suspension points are the awaits *)
(* on browser I/O (puppeteer.launch, browser.close, page.close, newPage,   *)
(* navigation, the challenge waits) and the 100 ms slot poll.  A promise   *)
(* continuation runs in the microtask queue of the turn that settled the   *)
(* promise, so the callers awaiting browserInitPromise resume in the step  *)
(* that completes the launch.  browser.pages() is answered from            *)
(* puppeteer's target list and is modelled as completing in the turn that  *)
(* calls it.  A page.close() takes effect when it is called; its caller    *)
(* resumes in a later step.  browser.close() puts the browser in state     *)
(* "closing"; the browser drops its connection in a later step, in which   *)
(* its 'disconnected' listener runs; the caller of close() resumes after.  *)
(*                                                                         *)
(* The program state is handled as one record (St) so that the synchronous *)
(* parts of the code compose as operators; every action commits the record *)
(* it computes to the variables.                                           *)
(***************************************************************************)
EXTENDS Integers, Sequences, FiniteSets, TLC

\* ---- program constants (server.js:18-19) ----
MAX_PAGES_PER_BROWSER == 10
MAX_CONCURRENT_REQUESTS == 2

\* ---- bounds of the model ----
NumFetches == 3     \* fetchMultiUpPage callers that may be in flight together
NumKeys == 2        \* cache keys (imdbId:season:episode) that are requested
MaxLaunch == 3      \* puppeteer.launch calls in one run
MaxPopups == 9      \* pages the engine has open outside the tracked path
NumManagers == 2    \* start-tunnel.js processes started on the host
MaxStarts == 4      \* startTunnelInternal invocations in one run
MaxHealth == 1      \* health checks that fail in one run

Null == 0
Pre == 0                          \* the preStartBrowser call of startServer
Fetches == 1..NumFetches
Sig == NumFetches + 1             \* the handler that runs gracefulShutdown
Procs == {Pre} \cup Fetches \cup {Sig}
Browsers == 1..MaxLaunch
Blank == <<0, 0>>                 \* the page a launched browser starts with
Popup == <<0, 1>>                 \* a page opened by the engine itself
PageOf(f, k) == <<f, k>>          \* k-th page opened by the current call of f
FetchPages == Fetches \X {1, 2}
\* the stream requests in flight together: as many as there are admission
\* slots; a request makes its fetch in the call slot of its number
Requests == 1..MAX_CONCURRENT_REQUESTS
Keys == 1..NumKeys
ErrorStream == 0                  \* the stream createErrorStream builds
RealStream(f) == f                \* the stream request f got from Real-Debrid

\* ---- constants of start-tunnel.js (line 12) ----
MAX_RETRIES == 3

Managers == 1..NumManagers        \* the start-tunnel.js processes, by pid
StalePid == NumManagers + 1       \* the pid of a process that is gone

VARIABLES globalBrowser, browserInitializing, browserInitPromise,
          cloudflareChallengeDetected, isBrowserHeadless, activePages,
          activeRequestCount, periodicCleanupInterval, isShuttingDown,
          hasDisplay, hasCookies,
          nLaunch, bstate, bheadless, bpages, bpopups,
          pc, browser, page, needsVisibleBrowser, awaiting,
          rpc, rkey, pageHtml, hosterLinks, response, cache, timedOut,
          lockFile, lpc, lread,
          inv, nStarts, nHealth, globalHealthCheckInterval, signalled, exitCode,
          shutdownTimer

\* the lock file of start-tunnel.js and the acquireLock call of each manager
lockVars == <<lockFile, lpc, lread>>

\* the startTunnelInternal invocations made so far, in the order of the calls
Starts == DOMAIN inv

\* the state of the manager that runs the tunnel
tunnelVars == <<inv, nStarts, nHealth, globalHealthCheckInterval, signalled, exitCode,
                shutdownTimer>>

vars == <<globalBrowser, browserInitializing, browserInitPromise,
          cloudflareChallengeDetected, isBrowserHeadless, activePages,
          activeRequestCount, periodicCleanupInterval, isShuttingDown,
          hasDisplay, hasCookies,
          nLaunch, bstate, bheadless, bpages, bpopups,
          pc, browser, page, needsVisibleBrowser, awaiting,
          rpc, rkey, pageHtml, hosterLinks, response, cache, timedOut,
          lockFile, lpc, lread,
          inv, nStarts, nHealth, globalHealthCheckInterval, signalled, exitCode,
          shutdownTimer>>

St == [globalBrowser |-> globalBrowser,
       browserInitializing |-> browserInitializing,
       browserInitPromise |-> browserInitPromise,
       cloudflareChallengeDetected |-> cloudflareChallengeDetected,
       isBrowserHeadless |-> isBrowserHeadless,
       activePages |-> activePages,
       activeRequestCount |-> activeRequestCount,
       periodicCleanupInterval |-> periodicCleanupInterval,
       isShuttingDown |-> isShuttingDown,
       hasDisplay |-> hasDisplay,
       hasCookies |-> hasCookies,
       nLaunch |-> nLaunch,
       bstate |-> bstate,
       bheadless |-> bheadless,
       bpages |-> bpages,
       bpopups |-> bpopups,
       pc |-> pc,
       browser |-> browser,
       page |-> page,
       needsVisibleBrowser |-> needsVisibleBrowser,
       awaiting |-> awaiting,
       rpc |-> rpc,
       rkey |-> rkey,
       pageHtml |-> pageHtml,
       hosterLinks |-> hosterLinks,
       response |-> response,
       cache |-> cache,
       timedOut |-> timedOut]

Commit(s) ==
    /\ globalBrowser' = s.globalBrowser
    /\ browserInitializing' = s.browserInitializing
    /\ browserInitPromise' = s.browserInitPromise
    /\ cloudflareChallengeDetected' = s.cloudflareChallengeDetected
    /\ isBrowserHeadless' = s.isBrowserHeadless
    /\ activePages' = s.activePages
    /\ activeRequestCount' = s.activeRequestCount
    /\ periodicCleanupInterval' = s.periodicCleanupInterval
    /\ isShuttingDown' = s.isShuttingDown
    /\ hasDisplay' = s.hasDisplay
    /\ hasCookies' = s.hasCookies
    /\ nLaunch' = s.nLaunch
    /\ bstate' = s.bstate
    /\ bheadless' = s.bheadless
    /\ bpages' = s.bpages
    /\ bpopups' = s.bpopups
    /\ pc' = s.pc
    /\ browser' = s.browser
    /\ page' = s.page
    /\ needsVisibleBrowser' = s.needsVisibleBrowser
    /\ awaiting' = s.awaiting
    /\ rpc' = s.rpc
    /\ rkey' = s.rkey
    /\ pageHtml' = s.pageHtml
    /\ hosterLinks' = s.hosterLinks
    /\ response' = s.response
    /\ cache' = s.cache
    /\ timedOut' = s.timedOut
    /\ UNCHANGED <<lockVars, tunnelVars>>

\* ---- the browser objects ----

\* browser.isConnected(): true from the end of the launch until the
\* connection drops (a browser being closed is still connected)
IsConnected(s, b) == b # Null /\ s.bstate[b] \in {"live", "closing"}

\* browser.pages(): the identified pages in creation order, then the pages
\* the engine opened itself
PagesList(s, b) == s.bpages[b] \o [i \in 1..s.bpopups[b] |-> Popup]

InList(L, p) == \E i \in 1..Len(L) : L[i] = p

\* Array.prototype.indexOf (0-based)
IndexOf(L, p) == (CHOOSE i \in 1..Len(L) : L[i] = p) - 1

\* !page.isClosed(): the page is still a page of some connected browser
PageOpen(s, p) == \E b \in Browsers : IsConnected(s, b) /\ InList(s.bpages[b], p)

\* page.close() on every page of the set P
ClosePages(s, P) ==
    [s EXCEPT !.bpages = [b \in Browsers |-> SelectSeq(s.bpages[b], LAMBDA q : q \notin P)]]

\* browser.close(): the browser starts to shut down
CloseBrowser(s, b) ==
    IF b # Null /\ s.bstate[b] = "live"
    THEN [s EXCEPT !.bstate[b] = "closing"]
    ELSE s


\* the pages a loop "for i = length-1 down to 1" visits: every page of the
\* list except the one at index 0
BeyondFirst(L) == {L[i] : i \in 2..Len(L)}

\* close every page of browser b except the one at index 0 of browser.pages()
CloseBeyondFirst(s, b) ==
    LET ids == s.bpages[b]
    IN [s EXCEPT !.bpages[b] = IF Len(ids) > 0 THEN <<ids[1]>> ELSE <<>>,
                 !.bpopups[b] = IF Len(ids) = 0 /\ s.bpopups[b] > 0 THEN 1 ELSE 0]

\* ---- admission (server.js:376-387) ----

\* waitForBrowserSlot with its loop condition written > instead of >=
SlotFreeOffByOne(s) == ~(s.activeRequestCount > MAX_CONCURRENT_REQUESTS)

\* the loop condition of waitForBrowserSlot is false
SlotFree(s) == ~(s.activeRequestCount >= MAX_CONCURRENT_REQUESTS)

Max(a, b) == IF a >= b THEN a ELSE b

releaseBrowserSlot(s) ==
    [s EXCEPT !.activeRequestCount = Max(0, s.activeRequestCount - 1)]

\* ---- fetchMultiUpPage: the end of a call (server.js:609-625) ----

\* the last statement of the finally block, then the call returns or throws
Release(s, f) ==
    [releaseBrowserSlot(s) EXCEPT !.pc[f] = "idle", !.browser[f] = Null,
                                  !.page[f] = Null, !.needsVisibleBrowser[f] = FALSE,
                                  !.awaiting[f] = Null]

\* a finally block that releases the slot and forgets the page
FinallyWithoutClose(s, f) == Release(s, f)

\* the finally block up to its await of page.close()
Finally(s, f) ==
    LET pg == PageOf(f, s.page[f])
    IN IF s.page[f] # Null
       THEN LET s2 == [s EXCEPT !.activePages = s.activePages \ {pg}]
            IN IF PageOpen(s2, pg)
               THEN [ClosePages(s2, {pg}) EXCEPT !.pc[f] = "fin_close"]
               ELSE Release(s2, f)
       ELSE Release(s, f)

\* what the call hands to the extractHosterLinks that made it
\* (server.js:888); a call made with no request behind it hands it to nobody
Settle(s, f, outcome) ==
    IF s.rpc[f] = "fetch" THEN [s EXCEPT !.pageHtml[f] = outcome] ELSE s

\* an error path on which the slot is released in a catch block of its own
\* and again in the finally block
ThrowReleasingTwice(s, f) == Finally(releaseBrowserSlot(Settle(s, f, "error")), f)

\* an awaited operation rejected inside the try block: catch, rethrow, finally
Throw(s, f) == Finally(Settle(s, f, "error"), f)

\* return pageHtml (server.js:608), then finally
ReturnHtml(s, f) == Finally(Settle(s, f, "html"), f)

\* ---- fetchMultiUpPage after getBrowser returned b (server.js:419-445) ----
AfterGetBrowserFirst(s, f, b) ==
    LET s1 == [s EXCEPT !.browser[f] = b, !.awaiting[f] = Null]
    IN IF ~IsConnected(s1, b)
       THEN Throw(s1, f)
       ELSE IF Len(PagesList(s1, b)) >= MAX_PAGES_PER_BROWSER
            THEN LET s2 == [s1 EXCEPT !.activePages =
                                 s1.activePages \ BeyondFirst(PagesList(s1, b))]
                 IN [CloseBeyondFirst(s2, b) EXCEPT !.pc[f] = "f_cleanup"]
            ELSE [s1 EXCEPT !.pc[f] = "f_newPage"]

\* ---- recovery after getBrowser returned b (server.js:531-537) ----
AfterGetBrowserRecovery(s, f, b) ==
    LET s1 == [s EXCEPT !.browser[f] = b, !.awaiting[f] = Null]
    IN IF ~IsConnected(s1, b)
       THEN Throw(s1, f)
       ELSE [s1 EXCEPT !.pc[f] = "r_newPage"]

\* ---- preStartBrowser after getBrowser returned (server.js:369-370) ----
startPeriodicCleanup(s) == [s EXCEPT !.periodicCleanupInterval = TRUE]

AfterGetBrowserPre(s) ==
    [startPeriodicCleanup(s) EXCEPT !.pc[Pre] = "done", !.awaiting[Pre] = Null]

\* getBrowser returns b to its caller p
Return(s, p, b) ==
    IF p = Pre THEN AfterGetBrowserPre(s)
    ELSE IF s.needsVisibleBrowser[p] THEN AfterGetBrowserRecovery(s, p, b)
    ELSE AfterGetBrowserFirst(s, p, b)

\* getBrowser throws to its caller p (server.js:371-373 for preStartBrowser)
Raise(s, p) ==
    IF p = Pre THEN [s EXCEPT !.pc[Pre] = "done", !.awaiting[Pre] = Null]
    ELSE Throw(s, p)

\* ---- getBrowser (server.js:172-295) ----

\* useHeadless that ignores the challenge flag
UseHeadlessIgnoringChallenge(display, cookies, challenge) == ~display \/ cookies

\* useHeadless (server.js:225)
UseHeadless(display, cookies, challenge) == ~display \/ (cookies /\ ~challenge)

\* finalHeadless without the override for a missing display
FinalHeadlessWithoutOverride(display, cookies, challenge) == cookies /\ ~challenge

\* finalHeadless (server.js:256)
FinalHeadless(display, cookies, challenge) ==
    IF ~display THEN TRUE ELSE UseHeadless(display, cookies, challenge)

\* server.js:197-258: the init promise is created and runs up to its await
\* of puppeteer.launch; the caller awaits the promise
StartLaunch(s, p) ==
    LET k == s.nLaunch + 1
    IN IF k > MaxLaunch
       THEN [s EXCEPT !.nLaunch = k]
       ELSE [s EXCEPT !.browserInitializing = TRUE,
                      !.browserInitPromise = k,
                      !.nLaunch = k,
                      !.bstate[k] = "launching",
                      !.bheadless[k] = FinalHeadless(s.hasDisplay, s.hasCookies,
                                                     s.cloudflareChallengeDetected),
                      !.pc[p] = "gbAwait",
                      !.awaiting[p] = k]

\* server.js:193-198
InitOrJoin(s, p) ==
    IF s.browserInitializing /\ s.browserInitPromise # Null
    THEN [s EXCEPT !.pc[p] = "gbAwait", !.awaiting[p] = s.browserInitPromise]
    ELSE StartLaunch(s, p)

\* a getBrowser that resets the session as soon as the ceiling is reached
getBrowserResettingAtCeiling(s, p, pagesOk) ==
    LET b == s.globalBrowser
    IN IF IsConnected(s, b)
       THEN IF pagesOk \/ s.bstate[b] = "live"
            THEN IF Len(PagesList(s, b)) >= MAX_PAGES_PER_BROWSER
                 THEN [CloseBrowser(s, b) EXCEPT !.pc[p] = "gbClose", !.awaiting[p] = b]
                 ELSE Return(s, p, b)
            ELSE InitOrJoin([s EXCEPT !.globalBrowser = Null, !.activePages = {}], p)
       ELSE InitOrJoin(s, p)

\* getBrowser up to its first suspension; pagesOk: globalBrowser.pages()
\* answers (it always does on a browser that is not being closed)
getBrowser(s, p, pagesOk) ==
    LET b == s.globalBrowser
    IN IF IsConnected(s, b)
       THEN IF pagesOk \/ s.bstate[b] = "live"
            THEN IF Len(PagesList(s, b)) > MAX_PAGES_PER_BROWSER
                 THEN [CloseBrowser(s, b) EXCEPT !.pc[p] = "gbClose", !.awaiting[p] = b]
                 ELSE Return(s, p, b)
            ELSE InitOrJoin([s EXCEPT !.globalBrowser = Null, !.activePages = {}], p)
       ELSE InitOrJoin(s, p)

\* server.js:179-182 after globalBrowser.close() resolved
AfterGbClose(s, p) ==
    InitOrJoin([s EXCEPT !.globalBrowser = Null, !.activePages = {},
                         !.awaiting[p] = Null], p)

\* the callers awaiting the init promise k resume, in the order of their ids
RECURSIVE ResumeWaiters(_, _, _, _)
ResumeWaiters(s, W, k, ok) ==
    IF W = {} THEN s
    ELSE LET p == CHOOSE x \in W : \A y \in W : x <= y
         IN ResumeWaiters(IF ok THEN Return(s, p, k) ELSE Raise(s, p), W \ {p}, k, ok)

Waiters(s, k) == {p \in Procs : s.pc[p] = "gbAwait" /\ s.awaiting[p] = k}

\* server.js:258-285: puppeteer.launch resolved
LaunchSucceeded(s, k) ==
    LET s1 == [s EXCEPT !.globalBrowser = k,
                        !.bstate[k] = "live",
                        !.bpages[k] = <<Blank>>,
                        !.isBrowserHeadless = s.bheadless[k],
                        !.browserInitializing = FALSE]
    IN ResumeWaiters(s1, Waiters(s, k), k, TRUE)

\* a failure path that leaves the init flag and the rejected promise in place
LaunchFailedKeepingPromise(s, k) ==
    LET s1 == [s EXCEPT !.bstate[k] = "failed",
                        !.bheadless[k] = FALSE]
    IN ResumeWaiters(s1, Waiters(s, k), k, FALSE)

\* server.js:286-291: puppeteer.launch rejected
LaunchFailed(s, k) ==
    LET s1 == [s EXCEPT !.bstate[k] = "failed",
                        !.bheadless[k] = FALSE,
                        !.browserInitializing = FALSE,
                        !.browserInitPromise = Null]
    IN ResumeWaiters(s1, Waiters(s, k), k, FALSE)

\* a 'disconnected' listener that also clears the challenge flag
OnDisconnectedClearingChallenge(s, b) ==
    LET s1 == ClosePages(s, s.activePages)
    IN [s1 EXCEPT !.bstate[b] = "dead",
                  !.bheadless[b] = FALSE,
                  !.bpages[b] = <<>>,
                  !.bpopups[b] = 0,
                  !.activePages = {},
                  !.globalBrowser = Null,
                  !.browserInitializing = FALSE,
                  !.browserInitPromise = Null,
                  !.isBrowserHeadless = FALSE,
                  !.cloudflareChallengeDetected = FALSE]

\* server.js:270-282: the 'disconnected' listener, run when browser b drops
\* its connection (all its pages go with it)
OnDisconnected(s, b) ==
    LET s1 == ClosePages(s, s.activePages)
    IN [s1 EXCEPT !.bstate[b] = "dead",
                  !.bheadless[b] = FALSE,
                  !.bpages[b] = <<>>,
                  !.bpopups[b] = 0,
                  !.activePages = {},
                  !.globalBrowser = Null,
                  !.browserInitializing = FALSE,
                  !.browserInitPromise = Null,
                  !.isBrowserHeadless = FALSE]


\* ---- fetchMultiUpPage: the challenge branch (server.js:477-572) ----

\* a recovery trigger that records the visible mode before the session is
\* torn down
RecoveryStartFlippingMode(s, f) ==
    LET pg == PageOf(f, s.page[f])
        s1 == [s EXCEPT !.cloudflareChallengeDetected = TRUE,
                        !.isBrowserHeadless = FALSE,
                        !.needsVisibleBrowser[f] = TRUE,
                        !.activePages = s.activePages \ {pg}]
    IN [ClosePages(s1, {pg}) EXCEPT !.pc[f] = "r_closePage"]

\* server.js:487-501: the recovery is triggered, the fetch closes its page
RecoveryStart(s, f) ==
    LET pg == PageOf(f, s.page[f])
        s1 == [s EXCEPT !.cloudflareChallengeDetected = TRUE,
                        !.needsVisibleBrowser[f] = TRUE,
                        !.activePages = s.activePages \ {pg}]
    IN [ClosePages(s1, {pg}) EXCEPT !.pc[f] = "r_closePage"]

\* a challenge branch that starts the recovery on any headless session,
\* display or not
ChallengeBranchWithoutDisplayCheck(s, f, challenged) ==
    IF challenged
    THEN IF s.isBrowserHeadless
         THEN RecoveryStart(s, f)
         ELSE [s EXCEPT !.pc[f] = "f_chal"]
    ELSE [s EXCEPT !.pc[f] = "f_tail"]

\* server.js:477-572 once title and content of the first navigation are read.
\* A fetch that does not recover has needsVisibleBrowser false, so its waits
\* of lines 575-599 touch nothing but its own page: they are one suspension
\* with the page.content() of line 601, at "f_chal" if it saw the challenge
\* and at "f_tail" if it did not.
ChallengeBranch(s, f, challenged) ==
    IF challenged
    THEN IF s.isBrowserHeadless /\ s.hasDisplay
         THEN RecoveryStart(s, f)
         ELSE [s EXCEPT !.pc[f] = "f_chal"]
    ELSE [s EXCEPT !.pc[f] = "f_tail"]

\* a resolved race that leaves the challenge flag as it is
RacePassedKeepingFlag(s, f) == [s EXCEPT !.pc[f] = "f_tail"]

\* server.js:583-588: the race of the challenge waits resolved
RacePassed(s, f) ==
    IF s.needsVisibleBrowser[f]
    THEN [s EXCEPT !.cloudflareChallengeDetected = FALSE, !.pc[f] = "f_tail"]
    ELSE [s EXCEPT !.pc[f] = "f_tail"]

\* a rejected race that sends the fetch back to its second navigation
RaceTimedOutRetrying(s, f) == [s EXCEPT !.pc[f] = "r_nav"]

\* server.js:589-591: the race rejected; the 3 seconds of line 591 are one
\* suspension with the waits that follow
RaceTimedOut(s, f) == [s EXCEPT !.pc[f] = "f_settle"]

\* server.js:526-531: the session state is reset and getBrowser is called
RecoveryRelaunch(s, f, pagesOk) ==
    getBrowser([s EXCEPT !.globalBrowser = Null,
                         !.browserInitializing = FALSE,
                         !.browserInitPromise = Null,
                         !.isBrowserHeadless = FALSE], f, pagesOk)

\* server.js:503-524: every page of the browser is closed, then the browser
RecoveryTeardown(s, f, pagesOk) ==
    LET b == s.browser[f]
    IN IF IsConnected(s, b)
       THEN LET L == PagesList(s, b)
                s1 == IF pagesOk \/ s.bstate[b] = "live"
                      THEN [s EXCEPT !.activePages = s.activePages \ {L[i] : i \in 1..Len(L)},
                                     !.bpages[b] = <<>>,
                                     !.bpopups[b] = 0]
                      ELSE [s EXCEPT !.activePages = {}]
            IN [CloseBrowser(s1, b) EXCEPT !.pc[f] = "r_browserClose"]
       ELSE RecoveryRelaunch(s, f, pagesOk)

\* ---- the periodic reconciliation callback (server.js:302-361) ----

\* a callback whose last loop does not skip the page at index 0
CleanupCallbackClosingFirst(s, pagesOk) ==
    LET b == s.globalBrowser
    IN IF ~IsConnected(s, b)
       THEN [s EXCEPT !.activePages = {}]
       ELSE IF ~(pagesOk \/ s.bstate[b] = "live")
       THEN s
       ELSE LET browserPages == PagesList(s, b)
                stillThere == {p \in s.activePages :
                                 PageOpen(s, p) /\ InList(browserPages, p)}
                pagesToClose == {p \in stillThere : IndexOf(browserPages, p) > 0}
                tracked == stillThere \ pagesToClose
                Closed(i) == \/ browserPages[i] \in pagesToClose
                             \/ browserPages[i] \notin tracked
                kept == {i \in 1..Len(browserPages) : ~Closed(i)}
                nIds == Len(s.bpages[b])
            IN [s EXCEPT !.activePages = tracked,
                         !.bpages[b] = SelectSeq(s.bpages[b],
                              LAMBDA q : \E i \in kept : i <= nIds /\ s.bpages[b][i] = q),
                         !.bpopups[b] = Cardinality({i \in kept : i > nIds})]

CleanupCallback(s, pagesOk) ==
    LET b == s.globalBrowser
    IN IF ~IsConnected(s, b)
       THEN [s EXCEPT !.activePages = {}]
       ELSE IF ~(pagesOk \/ s.bstate[b] = "live")
       THEN s
       ELSE LET browserPages == PagesList(s, b)
                stillThere == {p \in s.activePages :
                                 PageOpen(s, p) /\ InList(browserPages, p)}
                pagesToClose == {p \in stillThere : IndexOf(browserPages, p) > 0}
                tracked == stillThere \ pagesToClose
                Closed(i) == \/ browserPages[i] \in pagesToClose
                             \/ (browserPages[i] \notin tracked /\ i - 1 > 0)
                kept == {i \in 1..Len(browserPages) : ~Closed(i)}
                nIds == Len(s.bpages[b])
            IN [s EXCEPT !.activePages = tracked,
                         !.bpages[b] = SelectSeq(s.bpages[b],
                              LAMBDA q : \E i \in kept : i <= nIds /\ s.bpages[b][i] = q),
                         !.bpopups[b] = Cardinality({i \in kept : i > nIds})]

\* ---- gracefulShutdown and its callers (server.js:1296-1362) ----

\* server.js:1324-1333, then the process.exit of the handler
ShutdownReset(s) ==
    [s EXCEPT !.globalBrowser = Null,
              !.browserInitializing = FALSE,
              !.browserInitPromise = Null,
              !.periodicCleanupInterval = FALSE,
              !.pc[Sig] = "sd_done",
              !.awaiting[Sig] = Null]

\* server.js:1312-1322: the registry is cleared and the browser closed
ShutdownBrowser(s) ==
    LET s1 == [s EXCEPT !.activePages = {}]
        b == s.globalBrowser
    IN IF IsConnected(s1, b)
       THEN [CloseBrowser(s1, b) EXCEPT !.pc[Sig] = "sd_browser", !.awaiting[Sig] = b]
       ELSE ShutdownReset(s1)

\* server.js:1298-1311: every tracked page that is open is closed; with no
\* close to wait for, Promise.all resolves in the same turn
ShutdownStart(s) ==
    LET open == {p \in s.activePages : PageOpen(s, p)}
        s1 == [ClosePages(s, open) EXCEPT !.isShuttingDown = TRUE]
    IN IF open # {}
       THEN [s1 EXCEPT !.pc[Sig] = "sd_pages"]
       ELSE ShutdownBrowser(s1)

\* a gracefulShutdown without the test of line 1297
gracefulShutdownUnguarded(s) == ShutdownStart(s)

\* server.js:1296-1334 up to the first suspension
gracefulShutdown(s) == IF s.isShuttingDown THEN s ELSE ShutdownStart(s)

\* server.js:1337-1362: a handler calls gracefulShutdown and exits the
\* process when the call returns; the call of a handler that comes while a
\* shutdown is running returns at once
SignalHandler(s) ==
    IF s.isShuttingDown
    THEN [gracefulShutdown(s) EXCEPT !.pc[Sig] = "sd_killed"]
    ELSE gracefulShutdown(s)

\* ---- the state after startServer called preStartBrowser ----
Boot(display, cookies) ==
    [globalBrowser |-> Null,
     browserInitializing |-> FALSE,
     browserInitPromise |-> Null,
     cloudflareChallengeDetected |-> FALSE,
     isBrowserHeadless |-> FALSE,
     activePages |-> {},
     activeRequestCount |-> 0,
     periodicCleanupInterval |-> FALSE,
     isShuttingDown |-> FALSE,
     hasDisplay |-> display,
     hasCookies |-> cookies,
     nLaunch |-> 0,
     bstate |-> [b \in Browsers |-> "none"],
     bheadless |-> [b \in Browsers |-> FALSE],
     bpages |-> [b \in Browsers |-> <<>>],
     bpopups |-> [b \in Browsers |-> 0],
     pc |-> [p \in Procs |-> "idle"],
     browser |-> [p \in Procs |-> Null],
     page |-> [p \in Procs |-> Null],
     needsVisibleBrowser |-> [p \in Procs |-> FALSE],
     awaiting |-> [p \in Procs |-> Null],
     rpc |-> [f \in Fetches |-> "none"],
     rkey |-> [f \in Fetches |-> Null],
     pageHtml |-> [f \in Fetches |-> "none"],
     hosterLinks |-> [f \in Fetches |-> <<>>],
     response |-> [f \in Fetches |-> <<>>],
     cache |-> <<>>,
     timedOut |-> [f \in Fetches |-> FALSE]]

Holds(s) ==
    /\ globalBrowser = s.globalBrowser
    /\ browserInitializing = s.browserInitializing
    /\ browserInitPromise = s.browserInitPromise
    /\ cloudflareChallengeDetected = s.cloudflareChallengeDetected
    /\ isBrowserHeadless = s.isBrowserHeadless
    /\ activePages = s.activePages
    /\ activeRequestCount = s.activeRequestCount
    /\ periodicCleanupInterval = s.periodicCleanupInterval
    /\ isShuttingDown = s.isShuttingDown
    /\ hasDisplay = s.hasDisplay
    /\ hasCookies = s.hasCookies
    /\ nLaunch = s.nLaunch
    /\ bstate = s.bstate
    /\ bheadless = s.bheadless
    /\ bpages = s.bpages
    /\ bpopups = s.bpopups
    /\ pc = s.pc
    /\ browser = s.browser
    /\ page = s.page
    /\ needsVisibleBrowser = s.needsVisibleBrowser
    /\ awaiting = s.awaiting
    /\ rpc = s.rpc
    /\ rkey = s.rkey
    /\ pageHtml = s.pageHtml
    /\ hosterLinks = s.hosterLinks
    /\ response = s.response
    /\ cache = s.cache
    /\ timedOut = s.timedOut

\* ---- the state of start-tunnel.js before any manager runs ----

\* no lock file
NoFile == [present |-> FALSE, creator |-> 0, content |-> 0]

\* the closure of a startTunnelInternal invocation that has not been made
NoStart ==
    [retryCount |-> 0, lt |-> "none", killed |-> FALSE, urlUpdated |-> FALSE,
     urlVerified |-> FALSE, hasError |-> FALSE, isShuttingDown |-> FALSE,
     startupTimeout |-> FALSE, timer |-> "none", hc |-> "idle"]

LockOff ==
    /\ lockFile = NoFile
    /\ lpc = [m \in Managers |-> "off"]
    /\ lread = [m \in Managers |-> 0]

TunnelOff ==
    /\ inv = <<>>
    /\ nStarts = 0
    /\ nHealth = 0
    /\ globalHealthCheckInterval = Null
    /\ signalled = FALSE
    /\ exitCode = "none"
    /\ shutdownTimer = FALSE

ManagersOff == LockOff /\ TunnelOff

\* startServer (server.js:1365-1374): preStartBrowser has run up to the
\* await of its launch; the display and the cookie file are what the host has
Init ==
    /\ \E display \in BOOLEAN, cookies \in BOOLEAN :
          Holds(getBrowser(Boot(display, cookies), Pre, TRUE))
    /\ ManagersOff

\* process.exit was called
Exited == pc[Sig] \in {"sd_done", "sd_killed"}

\* a step is taken only by a process that has not exited, and only while the
\* launch budget of the model lasts
Do(s) == ~Exited /\ s.nLaunch <= MaxLaunch /\ Commit(s)

\* ---- actions of a fetchMultiUpPage call f ----

\* server.js:416-419: the slot is taken and getBrowser is entered
Acquire(s, f, pagesOk) ==
    getBrowser([s EXCEPT !.activeRequestCount = s.activeRequestCount + 1], f, pagesOk)

\* server.js:411-419: fetchMultiUpPage up to its first suspension
fetchMultiUpPage(s, f, pagesOk) ==
    IF SlotFree(s)
    THEN Acquire(s, f, pagesOk)
    ELSE [s EXCEPT !.pc[f] = "waitSlot"]

\* fetchMultiUpPage is called; which of the idle call slots of the model
\* takes the call makes no difference, so the lowest one does
FetchCall(f) ==
    /\ pc[f] = "idle"
    /\ \A g \in Fetches : g < f => pc[g] # "idle"
    /\ \E pagesOk \in BOOLEAN : Do(fetchMultiUpPage(St, f, pagesOk))

\* a 100 ms timer of waitForBrowserSlot fires and finds a free slot
PollSlot(f) ==
    /\ pc[f] = "waitSlot"
    /\ SlotFree(St)
    /\ \E pagesOk \in BOOLEAN : Do(Acquire(St, f, pagesOk))

\* globalBrowser.close() of getBrowser resolved (server.js:179)
GbCloseResume(p) ==
    /\ pc[p] = "gbClose"
    /\ bstate[awaiting[p]] = "dead"
    /\ Do(AfterGbClose(St, p))

\* the closes of the too-many-pages loop resolved (server.js:439-445)
CleanupResume(f) ==
    /\ pc[f] = "f_cleanup"
    /\ LET b == browser[f]
       IN IF ~IsConnected(St, b) \/ Len(PagesList(St, b)) >= MAX_PAGES_PER_BROWSER
          THEN Do(Throw(St, f))
          ELSE Do([St EXCEPT !.pc[f] = "f_newPage"])

\* browser.newPage() settled (server.js:445-446 and 537-538)
NewPage(f, k, created) ==
    LET b == browser[f]
        pg == PageOf(f, k)
    IN IF IsConnected(St, b) /\ (created \/ bstate[b] = "live")
       THEN Do([St EXCEPT !.page[f] = k,
                          !.bpages[b] = Append(bpages[b], pg),
                          !.activePages = activePages \cup {pg},
                          !.pc[f] = IF k = 1 THEN "f_nav" ELSE "r_nav"])
       ELSE Do(Throw(St, f))

FirstNewPage(f) ==
    /\ pc[f] = "f_newPage"
    /\ \E created \in BOOLEAN : NewPage(f, 1, created)

SecondNewPage(f) ==
    /\ pc[f] = "r_newPage"
    /\ \E created \in BOOLEAN : NewPage(f, 2, created)

\* page.goto, page.title and page.content settled (server.js:448-477)
FirstNavigation(f) ==
    /\ pc[f] = "f_nav"
    /\ \E outcome \in {"timeout", "clean", "challenge"} :
        IF outcome = "timeout" \/ ~PageOpen(St, PageOf(f, page[f]))
        THEN Do(Throw(St, f))
        ELSE Do(ChallengeBranch(St, f, outcome = "challenge"))

\* page.close() of the recovery resolved (server.js:496-524)
RecoveryClosePage(f) ==
    /\ pc[f] = "r_closePage"
    /\ \E pagesOk \in BOOLEAN : Do(RecoveryTeardown(St, f, pagesOk))

\* browser.close() of the recovery resolved (server.js:520-531)
RecoveryBrowserClosed(f) ==
    /\ pc[f] = "r_browserClose"
    /\ bstate[browser[f]] = "dead"
    /\ \E pagesOk \in BOOLEAN : Do(RecoveryRelaunch(St, f, pagesOk))

\* the second navigation settled (server.js:540-566)
SecondNavigation(f) ==
    /\ pc[f] = "r_nav"
    /\ \E outcome \in {"timeout", "loaded"} :
        IF outcome = "timeout" \/ ~PageOpen(St, PageOf(f, page[f]))
        THEN Do(Throw(St, f))
        ELSE Do([St EXCEPT !.pc[f] = "f_race"])

\* the race of the two challenge waits of a recovered fetch settled
\* (server.js:575-592)
ChallengeRace(f) ==
    /\ pc[f] = "f_race"
    /\ \E passed \in BOOLEAN :
        IF passed /\ PageOpen(St, PageOf(f, page[f]))
        THEN Do(RacePassed(St, f))
        ELSE Do(RaceTimedOut(St, f))

\* the marker wait is over and page.content() settled (server.js:594-608)
ReadContent(f) ==
    /\ pc[f] \in {"f_tail", "f_chal", "f_settle"}
    /\ IF PageOpen(St, PageOf(f, page[f]))
       THEN Do(ReturnHtml(St, f))
       ELSE Do(Throw(St, f))

\* page.close() of the finally block resolved (server.js:617-623)
FinallyClosed(f) ==
    /\ pc[f] = "fin_close"
    /\ Do(Release(St, f))

\* ---- the launches, the browsers and the timer ----

LaunchResolves(k) ==
    /\ bstate[k] = "launching"
    /\ Do(LaunchSucceeded(St, k))

LaunchRejects(k) ==
    /\ bstate[k] = "launching"
    /\ Do(LaunchFailed(St, k))

\* a browser whose close() was called drops its connection
BrowserCloses(b) ==
    /\ bstate[b] = "closing"
    /\ Do(OnDisconnected(St, b))

\* the engine crashes or the window is closed by hand
BrowserCrashes(b) ==
    /\ bstate[b] = "live"
    /\ Do(OnDisconnected(St, b))

\* the engine opens pages of its own (pop-ups of the visited site)
EngineOpensPages(b) ==
    /\ bstate[b] = "live"
    /\ bpopups[b] < MaxPopups
    /\ Do([St EXCEPT !.bpopups[b] = MaxPopups])

\* the running browser writes its cookie file
CookiesSaved ==
    /\ ~hasCookies
    /\ \E b \in Browsers : bstate[b] = "live"
    /\ Do([St EXCEPT !.hasCookies = TRUE])

\* the 2-minute interval fires
CleanupTick ==
    /\ periodicCleanupInterval
    /\ \E pagesOk \in BOOLEAN : Do(CleanupCallback(St, pagesOk))

\* the steps of a call whose browser stays under the page ceiling
FetchStepUnderCeiling(f) ==
    \/ FetchCall(f)
    \/ PollSlot(f)
    \/ FirstNewPage(f)
    \/ FirstNavigation(f)
    \/ RecoveryClosePage(f)
    \/ RecoveryBrowserClosed(f)
    \/ SecondNewPage(f)
    \/ SecondNavigation(f)
    \/ ChallengeRace(f)
    \/ ReadContent(f)
    \/ FinallyClosed(f)

FetchStep(f) ==
    \/ FetchStepUnderCeiling(f)
    \/ GbCloseResume(f)
    \/ CleanupResume(f)

Next ==
    \/ \E f \in Fetches : FetchStep(f)
    \/ \E k \in Browsers : LaunchResolves(k)
    \/ \E k \in Browsers : LaunchRejects(k)
    \/ \E b \in Browsers : BrowserCloses(b)
    \/ \E b \in Browsers : BrowserCrashes(b)
    \/ \E b \in Browsers : EngineOpensPages(b)
    \/ CookiesSaved
    \/ CleanupTick

Spec == Init /\ [][Next]_vars

\* ---- termination signals and process-level errors ----

\* SIGTERM, SIGINT or an uncaught exception is delivered
Signal ==
    /\ ~Exited
    /\ Do(SignalHandler(St))

\* the page closes of gracefulShutdown resolved (server.js:1311)
ShutdownPagesClosed ==
    /\ pc[Sig] = "sd_pages"
    /\ Do(ShutdownBrowser(St))

\* globalBrowser.close() of gracefulShutdown resolved (server.js:1317)
ShutdownBrowserClosed ==
    /\ pc[Sig] = "sd_browser"
    /\ bstate[awaiting[Sig]] = "dead"
    /\ Do(ShutdownReset(St))

\* the program with signals delivered at any time, on a host where the
\* engine opens no page of its own and does not crash
NextShutdown ==
    \/ \E f \in Fetches : FetchStepUnderCeiling(f)
    \/ \E k \in Browsers : LaunchResolves(k)
    \/ \E k \in Browsers : LaunchRejects(k)
    \/ \E b \in Browsers : BrowserCloses(b)
    \/ CleanupTick
    \/ Signal
    \/ ShutdownPagesClosed
    \/ ShutdownBrowserClosed

SpecShutdown == Init /\ [][NextShutdown]_vars

\* ---- the scheduling of the event loop ----

\* the steps of a call that holds a slot on a host without a display, each
\* the completion of a browser operation the call awaits
HolderStep(f) ==
    \/ FirstNewPage(f)
    \/ FirstNavigation(f)
    \/ ReadContent(f)
    \/ FinallyClosed(f)

\* the calls and the slot gate, with the one session the pre-start launches:
\* the host has no display, the engine neither fails nor opens pages
NextFair ==
    \/ \E f \in Fetches : FetchCall(f)
    \/ \E f \in Fetches : PollSlot(f)
    \/ \E f \in Fetches : HolderStep(f)
    \/ \E k \in Browsers : LaunchResolves(k)

\* every browser operation completes or times out, so a call that holds a
\* slot is resumed; a launch settles; the 100 ms timer of a waiting call fires
\* again and again, so the call gets the slot if a slot stays free.  Calls
\* arrive as they please.
Fairness ==
    /\ \A f \in Fetches : WF_vars(HolderStep(f))
    /\ \A f \in Fetches : WF_vars(PollSlot(f))
    /\ \A k \in Browsers : WF_vars(LaunchResolves(k))

\* the state after construction on a host without a display
InitNoDisplay ==
    /\ \E cookies \in BOOLEAN : Holds(getBrowser(Boot(FALSE, cookies), Pre, TRUE))
    /\ ManagersOff

SpecFair == InitNoDisplay /\ [][NextFair]_vars /\ Fairness

\* ---- the stream cache (cache.js:39-62) ----

\* getCachedStreams: the entry of the key if the cache object has one
getCachedStreams(c, k) ==
    [found |-> k \in DOMAIN c,
     streams |-> IF k \in DOMAIN c THEN c[k] ELSE <<>>]

\* a setCachedStreams without the test of line 53
setCachedStreamsStoringEmpty(c, k, streams) ==
    [x \in DOMAIN c \cup {k} |-> IF x = k THEN streams ELSE c[x]]

\* setCachedStreams
setCachedStreams(c, k, streams) ==
    IF Len(streams) = 0
    THEN c
    ELSE [x \in DOMAIN c \cup {k} |-> IF x = k THEN streams ELSE c[x]]

\* ---- the stream handler (server.js:1063-1293) ----

\* a cleanup that closes every page beyond the first, tracked or not
cleanupBrowserPagesClosingTracked(s, pagesOk) ==
    LET b == s.globalBrowser
    IN IF IsConnected(s, b) /\ (pagesOk \/ s.bstate[b] = "live")
       THEN LET L == PagesList(s, b)
                kept == {i \in 1..Len(L) : i - 1 = 0}
                nIds == Len(s.bpages[b])
            IN [s EXCEPT !.bpages[b] = SelectSeq(s.bpages[b],
                              LAMBDA q : \E i \in kept : i <= nIds /\ s.bpages[b][i] = q),
                         !.bpopups[b] = Cardinality({i \in kept : i > nIds})]
       ELSE s

\* server.js:390-408: every open page of globalBrowser beyond the first that
\* is not in activePages is closed
cleanupBrowserPages(s, pagesOk) ==
    LET b == s.globalBrowser
    IN IF IsConnected(s, b) /\ (pagesOk \/ s.bstate[b] = "live")
       THEN LET L == PagesList(s, b)
                kept == {i \in 1..Len(L) : i - 1 = 0 \/ L[i] \in s.activePages}
                nIds == Len(s.bpages[b])
            IN [s EXCEPT !.bpages[b] = SelectSeq(s.bpages[b],
                              LAMBDA q : \E i \in kept : i <= nIds /\ s.bpages[b][i] = q),
                         !.bpopups[b] = Cardinality({i \in kept : i > nIds})]
       ELSE s

\* handleStreamRequest returns { streams }: they go to the client, unless the
\* timeout of withTimeout has settled the race before (server.js:1052-1058),
\* in which case the client has its answer and the value is dropped
Answer(s, f, streams) ==
    IF s.timedOut[f]
    THEN [s EXCEPT !.rpc[f] = "done"]
    ELSE [s EXCEPT !.rpc[f] = "done", !.response[f] = streams]

\* a timeout that gives up the admission slot of the fetch it leaves behind
withTimeoutReleasingSlot(s, f) ==
    releaseBrowserSlot([s EXCEPT !.timedOut[f] = TRUE, !.response[f] = <<>>])

\* server.js:1044-1060 and 1085-1091: the timer of withTimeout fires before
\* handleStreamRequest settled; the handler catches the rejection and
\* answers { streams: [] }, handleStreamRequest runs on
withTimeout(s, f) == [s EXCEPT !.timedOut[f] = TRUE, !.response[f] = <<>>]

\* server.js:1096-1117 and 1277-1283: the id is parsed and the cache is asked;
\* kind "tt" is a series id with an imdb id, "title" one without, "other" a
\* movie or a malformed id
handleStreamRequest(s, f, kind, k) ==
    IF kind = "other"
    THEN Answer(s, f, <<>>)
    ELSE IF kind = "tt" /\ getCachedStreams(s.cache, k).found
    THEN Answer([s EXCEPT !.rkey[f] = k], f, getCachedStreams(s.cache, k).streams)
    ELSE [s EXCEPT !.rpc[f] = "lookup", !.rkey[f] = IF kind = "tt" THEN k ELSE Null]

\* server.js:1063-1093
streamHandler(s, f, kind, k) ==
    IF s.isShuttingDown
    THEN Answer(s, f, <<>>)
    ELSE handleStreamRequest(s, f, kind, k)

\* server.js:1119-1183 and 863-888: the title, the post and the MultiUp link
\* were looked up; with a link, extractHosterLinks calls fetchMultiUpPage
AfterLookups(s, f, found, pagesOk) ==
    IF found = "notitle"
    THEN Answer(s, f, <<>>)
    ELSE IF found = "nolink"
    THEN Answer(cleanupBrowserPages(s, pagesOk), f, <<ErrorStream>>)
    ELSE fetchMultiUpPage([s EXCEPT !.rpc[f] = "fetch"], f, pagesOk)

\* an extractHosterLinks without its catch block: the page of a failed fetch
\* is parsed like any other
extractHosterLinksWithoutCatch(html, valid) ==
    IF valid THEN <<"link">> ELSE <<>>

\* server.js:888-983: the links extractHosterLinks returns; valid: the page
\* lists at least one valid hoster link
extractHosterLinks(html, valid) ==
    IF html = "error"
    THEN <<>>
    ELSE IF valid THEN <<"link">> ELSE <<>>

\* server.js:1183-1204: extractHosterLinks returned
AfterExtract(s, f, valid, pagesOk) ==
    LET links == extractHosterLinks(s.pageHtml[f], valid)
        s1 == [s EXCEPT !.hosterLinks[f] = links, !.pageHtml[f] = "none"]
    IN IF Len(links) = 0
       THEN Answer(cleanupBrowserPages(s1, pagesOk), f, <<ErrorStream>>)
       ELSE [s1 EXCEPT !.rpc[f] = "debrid"]

\* server.js:1214-1276: the Real-Debrid loop ended; got: it produced a stream
AfterDebrid(s, f, got, pagesOk) ==
    LET s1 == [cleanupBrowserPages(s, pagesOk) EXCEPT !.hosterLinks[f] = <<>>]
        streams == IF got THEN <<RealStream(f)>> ELSE <<>>
    IN IF Len(streams) = 0
       THEN Answer(s1, f, <<ErrorStream>>)
       ELSE IF s.rkey[f] # Null /\ Len(streams) > 0
       THEN Answer([s1 EXCEPT !.cache = setCachedStreams(s.cache, s.rkey[f], streams)],
                   f, streams)
       ELSE Answer(s1, f, streams)

\* a stream request arrives; the lowest free request slot of the model takes it
StreamRequest(f) ==
    /\ rpc[f] = "none"
    /\ pc[f] = "idle"
    /\ \A g \in Requests : g < f => rpc[g] # "none"
    /\ \E kind \in {"tt", "title", "other"}, k \in Keys :
          Do(streamHandler(St, f, kind, k))

\* the lookups that precede the fetch settled
Lookups(f) ==
    /\ rpc[f] = "lookup"
    /\ \E found \in {"notitle", "nolink", "link"}, pagesOk \in BOOLEAN :
          Do(AfterLookups(St, f, found, pagesOk))

\* the fetchMultiUpPage call of the request settled
Extracted(f) ==
    /\ rpc[f] = "fetch"
    /\ pc[f] = "idle"
    /\ pageHtml[f] # "none"
    /\ \E valid \in BOOLEAN, pagesOk \in BOOLEAN :
          Do(AfterExtract(St, f, valid, pagesOk))

\* the Real-Debrid calls settled
Debrid(f) ==
    /\ rpc[f] = "debrid"
    /\ \E got \in BOOLEAN, pagesOk \in BOOLEAN :
          Do(AfterDebrid(St, f, got, pagesOk))

\* the answer has gone to the client
Answered(f) ==
    /\ rpc[f] = "done"
    /\ Do([St EXCEPT !.rpc[f] = "none", !.rkey[f] = Null,
                      !.hosterLinks[f] = <<>>, !.response[f] = <<>>,
                      !.timedOut[f] = FALSE])

\* the steps of a stream request and of the fetch it makes (with no more
\* requests than admission slots, no fetch has to poll for a slot)
RequestStep(f) ==
    \/ StreamRequest(f)
    \/ Lookups(f)
    \/ FirstNewPage(f)
    \/ FirstNavigation(f)
    \/ RecoveryClosePage(f)
    \/ RecoveryBrowserClosed(f)
    \/ SecondNewPage(f)
    \/ SecondNavigation(f)
    \/ ChallengeRace(f)
    \/ ReadContent(f)
    \/ FinallyClosed(f)
    \/ Extracted(f)
    \/ Debrid(f)
    \/ Answered(f)

\* the program serving stream requests, on a host where the engine opens no
\* page of its own and does not crash
NextRequest ==
    \/ \E f \in Requests : RequestStep(f)
    \/ \E k \in Browsers : LaunchResolves(k)
    \/ \E k \in Browsers : LaunchRejects(k)
    \/ \E b \in Browsers : BrowserCloses(b)

SpecRequest == Init /\ [][NextRequest]_vars

\* REQUEST_TIMEOUT_MS after the request came its handleStreamRequest has not
\* settled
RequestTimeout(f) ==
    /\ rpc[f] \in {"lookup", "fetch", "debrid"}
    /\ ~timedOut[f]
    /\ Do(withTimeout(St, f))

\* the steps of a stream request that may time out and of the fetch it makes
TimeoutStep(f) ==
    \/ StreamRequest(f)
    \/ Lookups(f)
    \/ HolderStep(f)
    \/ Extracted(f)
    \/ Debrid(f)
    \/ Answered(f)
    \/ RequestTimeout(f)

\* the program serving stream requests that may time out, on a host without
\* a display, where the engine opens no page of its own and does not crash
NextTimeout ==
    \/ \E f \in Requests : TimeoutStep(f)
    \/ \E k \in Browsers : LaunchResolves(k)
    \/ \E k \in Browsers : LaunchRejects(k)

SpecTimeout == InitNoDisplay /\ [][NextTimeout]_vars

\* ---- acquireLock and releaseLock (start-tunnel.js:29-67) ----
\* The managers are processes of their own: each fs call and each
\* process.kill is a step, and the steps of two managers interleave.

\* the server is not part of what a manager does
ServerOff == Holds(Boot(FALSE, FALSE))

\* process.kill(pid, 0) succeeds: the pid is that of a manager that runs
Running(m) == lpc[m] \notin {"off", "refused", "crashed", "exited"}

\* fs.openSync(LOCK_FILE, 'wx') (line 31): the file is created, or EEXIST
OpenLock(m) ==
    /\ lpc[m] = "start"
    /\ IF lockFile.present
       THEN lpc' = [lpc EXCEPT ![m] = "exists"] /\ UNCHANGED lockFile
       ELSE /\ lockFile' = [present |-> TRUE, creator |-> m, content |-> 0]
            /\ lpc' = [lpc EXCEPT ![m] = "opened"]
    /\ UNCHANGED lread

\* writeSync and closeSync (lines 32-34): the pid goes into the file the
\* manager created, which may no longer be the file at the path; return true
WritePid(m) ==
    /\ lpc[m] = "opened"
    /\ lockFile' = IF lockFile.present /\ lockFile.creator = m
                   THEN [lockFile EXCEPT !.content = m]
                   ELSE lockFile
    /\ lpc' = [lpc EXCEPT ![m] = "held"]
    /\ UNCHANGED lread

\* readFileSync and parseInt (line 38); ENOENT is caught at line 47
ReadLock(m) ==
    /\ lpc[m] = "exists"
    /\ IF lockFile.present
       THEN /\ lread' = [lread EXCEPT ![m] = lockFile.content]
            /\ lpc' = [lpc EXCEPT ![m] = "read"]
       ELSE /\ lpc' = [lpc EXCEPT ![m] = "unlink2"]
            /\ UNCHANGED lread
    /\ UNCHANGED lockFile

\* process.kill(pid, 0) (lines 39-43): return false if the process runs;
\* it throws for a dead pid and for NaN, the pid read from an empty file
CheckPid(m) ==
    /\ lpc[m] = "read"
    /\ lpc' = [lpc EXCEPT ![m] = IF lread[m] \in Managers /\ Running(lread[m])
                                 THEN "refused" ELSE "unlink1"]
    /\ UNCHANGED <<lockFile, lread>>

\* unlinkSync of line 45, then acquireLock again; if the file is gone the
\* error is caught at line 47
UnlinkStale(m) ==
    /\ lpc[m] = "unlink1"
    /\ IF lockFile.present
       THEN lockFile' = NoFile /\ lpc' = [lpc EXCEPT ![m] = "start"]
       ELSE lpc' = [lpc EXCEPT ![m] = "unlink2"] /\ UNCHANGED lockFile
    /\ UNCHANGED lread

\* unlinkSync of line 48, then acquireLock again; if the file is gone the
\* error leaves acquireLock and the process dies of it
UnlinkUnreadable(m) ==
    /\ lpc[m] = "unlink2"
    /\ IF lockFile.present
       THEN lockFile' = NoFile /\ lpc' = [lpc EXCEPT ![m] = "start"]
       ELSE lpc' = [lpc EXCEPT ![m] = "crashed"] /\ UNCHANGED lockFile
    /\ UNCHANGED lread

\* releaseLock (lines 59-67) of a manager that ends: the file at the path is
\* removed
ManagerEnds(m) ==
    /\ lpc[m] = "held"
    /\ lockFile' = NoFile
    /\ lpc' = [lpc EXCEPT ![m] = "exited"]
    /\ UNCHANGED lread

LockStep(m) ==
    \/ OpenLock(m)
    \/ WritePid(m)
    \/ ReadLock(m)
    \/ CheckPid(m)
    \/ UnlinkStale(m)
    \/ UnlinkUnreadable(m)
    \/ ManagerEnds(m)

\* the managers have been started; there is no lock file, or one left by a
\* process that is gone, or one that cannot be read
InitLock ==
    /\ ServerOff
    /\ TunnelOff
    /\ lockFile \in {NoFile,
                     [present |-> TRUE, creator |-> StalePid, content |-> StalePid],
                     [present |-> TRUE, creator |-> StalePid, content |-> 0]}
    /\ lpc = [m \in Managers |-> "start"]
    /\ lread = [m \in Managers |-> 0]

NextLock ==
    \E m \in Managers :
        LockStep(m) /\ UNCHANGED <<globalBrowser, browserInitializing, browserInitPromise,
          cloudflareChallengeDetected, isBrowserHeadless, activePages,
          activeRequestCount, periodicCleanupInterval, isShuttingDown,
          hasDisplay, hasCookies,
          nLaunch, bstate, bheadless, bpages, bpopups,
          pc, browser, page, needsVisibleBrowser, awaiting,
          rpc, rkey, pageHtml, hosterLinks, response, cache, timedOut,
          tunnelVars>>

SpecLock == InitLock /\ [][NextLock]_vars

\* ---- the tunnel manager (start-tunnel.js:337-709) ----
\* One manager holds the lock. inv[i] is the closure of the i-th call of
\* startTunnelInternal: its child lt, its flags and the timers it has set.

TunnelManager == 1

\* the exit code of a child that died of a signal (code is null)
KilledCode == -1

Alive(i) == inv[i].lt \in {"running", "dying"}

Up == exitCode = "none"

\* startTunnelInternal (lines 437-471): spawn lt, fresh closure variables,
\* the startup timeout is set
Started(retryCount) ==
    [NoStart EXCEPT !.retryCount = retryCount, !.lt = "running",
                    !.startupTimeout = TRUE]

\* lt.kill(signal) (lines 377, 467, 504, 669): the signal is sent and
\* lt.killed is set if the child has not been reaped; nothing otherwise
Kill(c) == IF c.lt \in {"running", "dying"}
           THEN [c EXCEPT !.lt = "dying", !.killed = TRUE]
           ELSE c

\* cleanupStaleProcesses (lines 74-147): every lt process on the port gets
\* SIGTERM by pid, whichever invocation spawned it
KillAll(invs) ==
    [i \in DOMAIN invs |-> IF invs[i].lt = "running"
                      THEN [invs[i] EXCEPT !.lt = "dying"]
                      ELSE invs[i]]

\* process.exit(code) after releaseLock (lines 624-631, 651-652)
ReleaseAndExit(code) ==
    /\ lockFile' = NoFile
    /\ lpc' = [lpc EXCEPT ![TunnelManager] = "exited"]
    /\ exitCode' = code

\* the manager goes on running
GoesOn == UNCHANGED <<lockFile, lpc, exitCode>>

\* stdout handler, URL of the expected subdomain (lines 473-533)
UrlVerified(i) ==
    /\ Up /\ Alive(i) /\ ~inv[i].urlUpdated
    /\ inv' = [inv EXCEPT ![i].urlUpdated = TRUE, ![i].urlVerified = TRUE,
                          ![i].startupTimeout = FALSE]
    /\ globalHealthCheckInterval' = i
    /\ GoesOn
    /\ UNCHANGED <<nStarts, nHealth, signalled, shutdownTimer, lread>>

\* stdout handler, URL of another subdomain (lines 493-520)
UrlWrong(i) ==
    /\ Up /\ Alive(i) /\ ~inv[i].urlUpdated
    /\ inv' = [inv EXCEPT ![i] = IF inv[i].killed
                                 THEN [inv[i] EXCEPT !.hasError = TRUE, !.urlUpdated = TRUE,
                                                     !.startupTimeout = FALSE]
                                 ELSE Kill([inv[i] EXCEPT !.hasError = TRUE, !.urlUpdated = TRUE,
                                                          !.startupTimeout = FALSE])]
    /\ GoesOn
    /\ UNCHANGED <<nStarts, nHealth, globalHealthCheckInterval, signalled, shutdownTimer, lread>>

\* the startup timeout fires (lines 458-471)
StartupTimeout(i) ==
    /\ Up /\ inv[i].startupTimeout
    /\ inv' = [inv EXCEPT ![i] =
                 IF inv[i].urlUpdated
                 THEN [inv[i] EXCEPT !.startupTimeout = FALSE]
                 ELSE IF inv[i].killed
                      THEN [inv[i] EXCEPT !.startupTimeout = FALSE, !.hasError = TRUE]
                      ELSE Kill([inv[i] EXCEPT !.startupTimeout = FALSE, !.hasError = TRUE])]
    /\ GoesOn
    /\ UNCHANGED <<nStarts, nHealth, globalHealthCheckInterval, signalled, shutdownTimer, lread>>

\* the closure of a child that has closed: of its flags only lt.killed and
\* isShuttingDown are read again (by shutdown); the others are read for the
\* last time by the close handler and are put back to their first values
Closed(c) ==
    [c EXCEPT !.lt = "closed", !.startupTimeout = FALSE, !.urlVerified = FALSE,
              !.urlUpdated = FALSE, !.hasError = FALSE]

\* the close handler of an invocation that is not shutting down (lines
\* 562-633): the closure after it, timer "retry" or "restart" if it set one
closeHandler(c, code) ==
    IF c.urlVerified /\ code = 0 /\ ~c.hasError
    THEN [Closed(c) EXCEPT !.timer = "restart"]
    ELSE IF c.retryCount < MAX_RETRIES
         THEN [Closed(c) EXCEPT !.timer = "retry"]
         ELSE Closed(c)

\* the stderr handler (lines 535-547) has run before the close handler if
\* the child wrote "subdomain taken" or "connection refused"
stderrHandler(c, errorOutput) ==
    IF errorOutput THEN [c EXCEPT !.hasError = TRUE] ELSE c

\* the child closes (lines 549-634), after what it wrote to stderr has been
\* handled; if shutdown has run in this closure the listener of line 657
\* completes the shutdown
ChildCloses(i, code, errorOutput) ==
    /\ Up /\ Alive(i)
    /\ IF inv[i].lt = "dying" THEN code = KilledCode ELSE code \in {0, 1}
    /\ globalHealthCheckInterval' = Null
    /\ IF inv[i].isShuttingDown
       THEN /\ inv' = [inv EXCEPT ![i] = Closed(inv[i])]
            /\ ReleaseAndExit("0")
       ELSE /\ inv' = [inv EXCEPT ![i] = closeHandler(stderrHandler(inv[i], errorOutput), code)]
            /\ IF inv'[i].timer = "none" THEN ReleaseAndExit("1") ELSE GoesOn
    /\ UNCHANGED <<nStarts, nHealth, signalled, shutdownTimer, lread>>

\* the timer of line 573 or 609 fires: cleanupStaleProcesses signals the lt
\* processes it finds and the callback awaits its promise
TimerFires(i) ==
    /\ Up /\ inv[i].timer \in {"retry", "restart"}
    /\ inv' = [KillAll(inv) EXCEPT ![i].timer =
                   IF inv[i].timer = "retry" THEN "retryCleanup" ELSE "restartCleanup"]
    /\ GoesOn
    /\ UNCHANGED <<nStarts, nHealth, globalHealthCheckInterval, signalled, shutdownTimer, lread>>

\* the cleanup is over: startTunnelInternal with retryCount + 1 (line 621) or
\* with 0 (line 583)
CleanupDone(i) ==
    /\ Up /\ inv[i].timer \in {"retryCleanup", "restartCleanup"}
    /\ nStarts < MaxStarts
    /\ nStarts' = nStarts + 1
    /\ inv' = Append([inv EXCEPT ![i].timer = "none"],
                     Started(IF inv[i].timer = "retryCleanup"
                             THEN inv[i].retryCount + 1 ELSE 0))
    /\ GoesOn
    /\ UNCHANGED <<nHealth, globalHealthCheckInterval, signalled, shutdownTimer, lread>>

\* the health-check interval fires (lines 347-360): the child is found alive
\* and the callback awaits checkTunnelHealth
HealthCheckTick(i) ==
    /\ Up /\ globalHealthCheckInterval = i /\ inv[i].hc = "idle"
    /\ inv' = [inv EXCEPT ![i].hc = "checking"]
    /\ GoesOn
    /\ UNCHANGED <<nStarts, nHealth, globalHealthCheckInterval, signalled, shutdownTimer, lread>>

\* checkTunnelHealth has answered (lines 362-388, 400-404)
HealthVerdict(i, tunnelHealthy) ==
    /\ Up /\ inv[i].hc = "checking"
    /\ IF tunnelHealthy
       THEN /\ inv' = [inv EXCEPT ![i].hc = "idle"]
            /\ UNCHANGED <<globalHealthCheckInterval, nHealth>>
       ELSE /\ nHealth < MaxHealth
            /\ nHealth' = nHealth + 1
            /\ globalHealthCheckInterval' = Null
            /\ inv' = [inv EXCEPT ![i] = IF inv[i].killed
                                         THEN [inv[i] EXCEPT !.hc = "restarting"]
                                         ELSE Kill([inv[i] EXCEPT !.hc = "restarting"])]
    /\ GoesOn
    /\ UNCHANGED <<nStarts, signalled, shutdownTimer, lread>>

\* the health check's cleanupStaleProcesses (line 390)
HealthCleanup(i) ==
    /\ Up /\ inv[i].hc = "restarting"
    /\ inv' = [KillAll(inv) EXCEPT ![i].hc = "cleanup"]
    /\ GoesOn
    /\ UNCHANGED <<nStarts, nHealth, globalHealthCheckInterval, signalled, shutdownTimer, lread>>

\* the health check restarts the tunnel with retryCount 0 (line 399)
HealthRestart(i) ==
    /\ Up /\ inv[i].hc = "cleanup"
    /\ nStarts < MaxStarts
    /\ nStarts' = nStarts + 1
    /\ inv' = Append([inv EXCEPT ![i].hc = "idle"], Started(0))
    /\ GoesOn
    /\ UNCHANGED <<nHealth, globalHealthCheckInterval, signalled, shutdownTimer, lread>>

\* the invocations whose shutdown handler runs on a signal: the handlers
\* run in the order they were registered (lines 706-708), up to the first
\* whose child has lt.killed set, which exits the process (lines 689-691)
FirstKilled == {i \in 1..nStarts : inv[i].killed /\ \A j \in 1..(i - 1) : ~inv[j].killed}

Handled == {i \in 1..nStarts : \A j \in 1..(i - 1) : ~inv[j].killed}

\* shutdown (lines 637-692) in every invocation that registered it
ShutdownSignal ==
    /\ Up
    /\ signalled' = TRUE
    /\ globalHealthCheckInterval' = Null
    /\ inv' = [i \in Starts |->
                 IF i \in Handled
                 THEN IF inv[i].killed
                      THEN [inv[i] EXCEPT !.isShuttingDown = TRUE, !.startupTimeout = FALSE]
                      ELSE Kill([inv[i] EXCEPT !.isShuttingDown = TRUE,
                                               !.startupTimeout = FALSE])
                 ELSE inv[i]]
    /\ IF FirstKilled # {}
       THEN ReleaseAndExit("0") /\ UNCHANGED shutdownTimer
       ELSE GoesOn /\ shutdownTimer' = TRUE
    /\ UNCHANGED <<nStarts, nHealth, lread>>

\* the timers of lines 672-684 have run: completeShutdown
ShutdownTimerFires ==
    /\ Up /\ shutdownTimer
    /\ ReleaseAndExit("0")
    /\ UNCHANGED <<inv, nStarts, nHealth, globalHealthCheckInterval, signalled, shutdownTimer, lread>>

TunnelStep(i) ==
    \/ UrlVerified(i)
    \/ UrlWrong(i)
    \/ StartupTimeout(i)
    \/ \E code \in {0, 1, KilledCode}, errorOutput \in BOOLEAN :
          ChildCloses(i, code, errorOutput)
    \/ TimerFires(i)
    \/ CleanupDone(i)
    \/ HealthCheckTick(i)
    \/ \E tunnelHealthy \in BOOLEAN : HealthVerdict(i, tunnelHealthy)
    \/ HealthCleanup(i)
    \/ HealthRestart(i)

\* startTunnel (lines 409-434) has taken the lock and made the first call of
\* startTunnelInternal, with retryCount 0
InitTunnel ==
    /\ ServerOff
    /\ lockFile = [present |-> TRUE, creator |-> TunnelManager, content |-> TunnelManager]
    /\ lpc = [m \in Managers |-> IF m = TunnelManager THEN "held" ELSE "off"]
    /\ lread = [m \in Managers |-> 0]
    /\ inv = <<Started(0)>>
    /\ nStarts = 1
    /\ nHealth = 0
    /\ globalHealthCheckInterval = Null
    /\ signalled = FALSE
    /\ exitCode = "none"
    /\ shutdownTimer = FALSE

NextTunnel ==
    /\ \/ \E i \in Starts : TunnelStep(i)
       \/ ShutdownSignal
       \/ ShutdownTimerFires
    /\ UNCHANGED <<globalBrowser, browserInitializing, browserInitPromise,
          cloudflareChallengeDetected, isBrowserHeadless, activePages,
          activeRequestCount, periodicCleanupInterval, isShuttingDown,
          hasDisplay, hasCookies,
          nLaunch, bstate, bheadless, bpages, bpopups,
          pc, browser, page, needsVisibleBrowser, awaiting,
          rpc, rkey, pageHtml, hosterLinks, response, cache, timedOut>>

SpecTunnel == InitTunnel /\ [][NextTunnel]_vars

\* ---- properties ----

\* the fetches that returned from waitForBrowserSlot and have not released
Holders == {f \in Fetches : pc[f] \notin {"idle", "waitSlot"}}

\* the fetch is past newPage and works on its page
Navigating(f) == pc[f] \in {"f_nav", "r_nav", "f_race", "f_chal", "f_settle", "f_tail"}

PageOpenNow(p) == PageOpen(St, p)

\* the page of a navigating fetch is open
InUse(f) == Navigating(f) /\ PageOpenNow(PageOf(f, page[f]))

LiveBrowsers == {b \in Browsers : bstate[b] = "live"}

Launching == {b \in Browsers : bstate[b] = "launching"}

\* C1: never more than MAX_CONCURRENT_REQUESTS fetches are between
\* waitForBrowserSlot and releaseBrowserSlot, and a fetch passes
\* waitForBrowserSlot only in a state in which fewer than that many hold a slot
C1_Admission ==
    /\ [](Cardinality(Holders) <= MAX_CONCURRENT_REQUESTS)
    /\ [][\A f \in Fetches :
            (pc[f] \in {"idle", "waitSlot"} /\ f \in Holders')
                => Cardinality(Holders) < MAX_CONCURRENT_REQUESTS]_vars

\* C1 witness: two fetches hold a slot and the third one polls
C1_Witness ==
    /\ Cardinality(Holders) = MAX_CONCURRENT_REQUESTS
    /\ \E f \in Fetches : pc[f] = "waitSlot"

\* C2: activeRequestCount is the number of fetches between acquire and
\* release, so a release never needs the clamp and the counter is 0 when no
\* fetch is in flight
C2_SlotAccounting ==
    /\ activeRequestCount = Cardinality(Holders)
    /\ (Holders # {} => activeRequestCount - 1 >= 0)
    /\ (Holders = {} => activeRequestCount = 0)

\* C2 witness: a fetch went into the recovery, its relaunch failed, and every
\* fetch has returned with the counter back at 0
C2_Witness ==
    /\ Holders = {}
    /\ activeRequestCount = 0
    /\ cloudflareChallengeDetected
    /\ \E b \in Browsers : bstate[b] = "failed"

\* C3: at most one launched browser is live, and no launch is under way while
\* a browser is live
C3_OneLiveBrowser ==
    /\ Cardinality(LiveBrowsers) <= 1
    /\ (Launching # {} => LiveBrowsers = {})

\* C4: at most one puppeteer.launch is under way, and all callers inside
\* getBrowser await that one
C4_OneLaunch ==
    /\ Cardinality(Launching) <= 1
    /\ \A p \in Procs : pc[p] = "gbAwait" => Launching = {awaiting[p]}

C6_CleanupSparesTracked ==
    [][CleanupTick =>
         \A f \in Fetches :
            (InUse(f) /\ PageOf(f, page[f]) \in activePages)
                => PageOpenNow(PageOf(f, page[f]))']_vars

\* C7: a step of one fetch closes neither the page another fetch is using
\* nor the browser that page is in
C7_NoCrossFetchClose ==
    [][\A f \in Fetches : FetchStep(f) =>
         \A g \in Fetches \ {f} :
            InUse(g) => /\ PageOpenNow(PageOf(g, page[g]))'
                        /\ bstate'[browser[g]] = bstate[browser[g]]]_vars

\* C8: a disconnect leaves no session reference, no tracked page and no
\* initialization state; getBrowser hands its caller a connected browser;
\* and no second live session ever exists
C8_Disconnect ==
    /\ [][(\E b \in Browsers : bstate[b] \in {"live", "closing"} /\ bstate'[b] = "dead")
            => /\ globalBrowser' = Null
               /\ activePages' = {}
               /\ ~browserInitializing'
               /\ browserInitPromise' = Null]_vars
    /\ [][\A f \in Fetches :
            (browser'[f] # Null /\ browser'[f] # browser[f])
                => bstate'[browser'[f]] \in {"live", "closing"}]_vars
    /\ [](Cardinality(LiveBrowsers) <= 1)

\* C9: a session is launched headless exactly if there is no display, or
\* the cookie file exists and no challenge is flagged; isBrowserHeadless is
\* the mode of the session globalBrowser refers to
C9_ModeAtCreation ==
    /\ [][\A k \in Browsers :
            (bstate[k] = "none" /\ bstate'[k] = "launching")
                => (bheadless'[k] <=>
                      (~hasDisplay \/ (hasCookies /\ ~cloudflareChallengeDetected)))]_vars
    /\ [](globalBrowser # Null => isBrowserHeadless = bheadless[globalBrowser])

\* C9 witness: with a display and saved cookies, a session was launched
\* visible because a challenge is flagged
C9_Witness ==
    /\ hasDisplay /\ hasCookies /\ cloudflareChallengeDetected
    /\ globalBrowser # Null
    /\ ~isBrowserHeadless

\* C10: without a display every session is headless whatever the cookies
\* and the challenge flag, and no fetch enters the recovery
C10_NoDisplayHeadless ==
    /\ \A cookies \in BOOLEAN, challenge \in BOOLEAN :
          FinalHeadless(FALSE, cookies, challenge)
    /\ ~hasDisplay =>
          /\ \A b \in Browsers :
                bstate[b] \in {"launching", "live", "closing"} => bheadless[b]
          /\ \A f \in Fetches :
                /\ ~needsVisibleBrowser[f]
                /\ pc[f] \notin {"r_closePage", "r_browserClose", "r_newPage", "r_nav"}
          /\ ~cloudflareChallengeDetected

\* C10 witness: without display and without cookies, a session relaunched
\* after a too-many-pages reset is headless
C10_Witness ==
    /\ ~hasDisplay /\ ~hasCookies
    /\ \E b \in Browsers : b > 1 /\ bstate[b] = "live" /\ bheadless[b]
    /\ \E b \in Browsers : bstate[b] = "dead"

\* the fetch is in the recovery between its trigger and the relaunch
Recovering(f) == pc[f] \in {"r_closePage", "r_browserClose"}

\* C11: a fetch whose first navigation shows the challenge while the session
\* is headless and a display exists enters the recovery: it sets
\* cloudflareChallengeDetected and closes its page; when it relaunches, the
\* browser it used is closed with all its pages and the session it launches
\* is visible; the page it navigates again is a new page of a visible session
C11_Recovery ==
    /\ [][\A f \in Fetches :
            /\ (pc[f] = "f_nav" /\ pc'[f] = "f_chal")
                  => ~(isBrowserHeadless /\ hasDisplay)
            /\ (pc[f] = "f_nav" /\ pc'[f] = "r_closePage")
                  => /\ isBrowserHeadless /\ hasDisplay
                     /\ cloudflareChallengeDetected'
                     /\ ~PageOpenNow(PageOf(f, 1))'
            /\ (Recovering(f) /\ pc'[f] = "gbAwait")
                  => /\ bstate'[browser[f]] = "dead"
                     /\ bpages'[browser[f]] = <<>>
                     /\ ~bheadless'[awaiting'[f]]]_vars
    /\ [](\A f \in Fetches :
            pc[f] = "r_nav"
               => /\ page[f] = 2
                  /\ bstate[browser[f]] \in {"live", "closing"} => ~bheadless[browser[f]])

\* the step in which fetch f reads the challenge page of its first navigation
ChallengeSeen(f) == pc[f] = "f_nav" /\ pc'[f] \in {"f_chal", "r_closePage"}

\* the session fetch f works in is connected and headless
OnHeadlessSession(f) == IsConnected(St, browser[f]) /\ bheadless[browser[f]]

\* the session fetch f works in is connected and visible
OnVisibleSession(f) == IsConnected(St, browser[f]) /\ ~bheadless[browser[f]]

\* C12: a fetch that reads the challenge page while a display exists does
\* the relaunch-and-renavigate exactly once before it returns: it is never
\* left to its waits on a headless session without having relaunched (on a
\* session already visible section 4.3 of the spec wants none), it enters
\* the recovery only from its first navigation, and after the recovery it
\* waits on its second page
C12_ExactlyOneRelaunch ==
    /\ [][\A f \in Fetches :
            /\ (ChallengeSeen(f) /\ hasDisplay /\ OnHeadlessSession(f))
                  => pc'[f] = "r_closePage"
            /\ (pc'[f] = "r_closePage" /\ pc[f] # "r_closePage")
                  => pc[f] = "f_nav" /\ page[f] = 1 /\ ~needsVisibleBrowser[f]]_vars
    /\ [](\A f \in Fetches :
            (needsVisibleBrowser[f] /\ pc[f] \in {"f_race", "f_tail", "f_settle"})
               => page[f] = 2)

\* C13: when the race of the challenge waits of a recovered fetch resolves,
\* cloudflareChallengeDetected is false afterwards; when it times out the
\* flag keeps its value
C13_ChallengeCleared ==
    /\ [](\A f \in Fetches : pc[f] = "f_race" => needsVisibleBrowser[f] /\ page[f] = 2)
    /\ [][\A f \in Fetches :
            pc[f] = "f_race"
               => /\ pc'[f] = "f_tail" => ~cloudflareChallengeDetected'
                  /\ pc'[f] = "f_settle" =>
                        cloudflareChallengeDetected' = cloudflareChallengeDetected]_vars

\* C13 witness: the race of a recovered fetch resolved and the flag is reset
C13_Witness ==
    \E f \in Fetches :
        pc[f] = "f_tail" /\ needsVisibleBrowser[f] /\ ~cloudflareChallengeDetected

C15_VisibleNoRelaunch ==
    [][\A f \in Fetches :
         (ChallengeSeen(f) /\ OnVisibleSession(f))
            => /\ pc'[f] = "f_chal"
               /\ UNCHANGED <<bstate, bheadless, nLaunch, globalBrowser,
                              isBrowserHeadless>>]_vars

\* a browser that is connected
Connected == {b \in Browsers : bstate[b] \in {"live", "closing"}}

\* C18: the gracefulShutdown call of a handler that comes while a shutdown
\* is running closes no page and no browser and changes no state; all the
\* step does is the process.exit of that handler
C18_ShutdownIdempotent ==
    [][(isShuttingDown /\ pc'[Sig] = "sd_killed")
          => /\ UNCHANGED <<globalBrowser, browserInitializing, browserInitPromise,
                            cloudflareChallengeDetected, isBrowserHeadless,
                            activePages, activeRequestCount,
                            periodicCleanupInterval, isShuttingDown,
                            hasDisplay, hasCookies, nLaunch, bstate, bheadless,
                            bpages, bpopups, browser, page, needsVisibleBrowser,
                            awaiting>>
             /\ \A p \in Procs \ {Sig} : pc'[p] = pc[p]]_vars

\* C18 witness: a second handler ran while the first shutdown was waiting for
\* the browser it closes
C18_Witness ==
    /\ pc[Sig] = "sd_killed"
    /\ awaiting[Sig] # Null
    /\ bstate[awaiting[Sig]] = "closing"

\* C19: when gracefulShutdown has completed, the interval is cleared, no page
\* of a fetch is open, activePages is empty, no browser is connected, and
\* globalBrowser, browserInitializing and browserInitPromise are reset
C19_ShutdownPostcondition ==
    pc[Sig] = "sd_done"
       => /\ ~periodicCleanupInterval
          /\ activePages = {}
          /\ \A p \in FetchPages : ~PageOpenNow(p)
          /\ Connected = {}
          /\ globalBrowser = Null
          /\ ~browserInitializing
          /\ browserInitPromise = Null

\* C20: once isShuttingDown is true no fetchMultiUpPage call gets under way
\* (it takes no slot and enters neither getBrowser nor newPage) and no
\* browser is launched
C20_RejectAfterShutdown ==
    [][isShuttingDown
          => /\ \A f \in Fetches : pc[f] = "idle" => pc'[f] = "idle"
             /\ \A f \in Fetches : pc[f] = "waitSlot" => pc'[f] \in {"waitSlot", "idle"}
             /\ activeRequestCount' <= activeRequestCount
             /\ nLaunch' = nLaunch]_vars

\* C16: a browser keeps the mode it was launched with as long as it exists;
\* isBrowserHeadless changes only together with globalBrowser, and only when
\* a launch completes, when a browser drops its connection, or when a fetch
\* leaves the recovery for its relaunch, which a fetch does only while it is
\* on its first page
C16_ModeFrame ==
    /\ [][\A b \in Browsers :
            (bstate[b] \in {"launching", "live", "closing"}
               /\ bstate'[b] \in {"launching", "live", "closing"})
                  => bheadless'[b] = bheadless[b]]_vars
    /\ [][(globalBrowser # Null /\ globalBrowser' = globalBrowser)
            => isBrowserHeadless' = isBrowserHeadless]_vars
    /\ [][isBrowserHeadless' # isBrowserHeadless
            => \/ \E b \in Browsers : bstate[b] = "launching" /\ bstate'[b] = "live"
               \/ \E b \in Browsers : bstate[b] \in {"live", "closing"}
                                          /\ bstate'[b] = "dead"
               \/ \E f \in Fetches : Recovering(f) /\ pc'[f] = "gbAwait"
                                          /\ page[f] = 1]_vars

\* C16 witness: a fetch is on the second page it opened in the visible
\* session its recovery launched in place of the headless one
C16_Witness ==
    \E f \in Fetches :
        /\ pc[f] = "r_nav"
        /\ globalBrowser = browser[f]
        /\ ~isBrowserHeadless
        /\ hasCookies

\* C17: cloudflareChallengeDetected changes only in a step of a fetch that
\* has read the page of its navigation: to true when the recovery is
\* triggered, to false when the race of a recovered fetch resolves
C17_FlagWriters ==
    [][cloudflareChallengeDetected' # cloudflareChallengeDetected
         => \E f \in Fetches :
               \/ pc[f] = "f_nav" /\ pc'[f] = "r_closePage"
                     /\ cloudflareChallengeDetected'
               \/ pc[f] = "f_race" /\ pc'[f] = "f_tail"
                     /\ ~cloudflareChallengeDetected']_vars

\* C17 witness: the flag is still set after the disconnect handler of the
\* closed session ran and gracefulShutdown went through to its end
C17_Witness ==
    /\ cloudflareChallengeDetected
    /\ pc[Sig] = "sd_done"
    /\ \E b \in Browsers : bstate[b] = "dead"

\* C21: when the launch preStartBrowser awaits fails, preStartBrowser ends
\* without exiting the process and globalBrowser, browserInitializing and
\* browserInitPromise are reset; nobody ever awaits an init promise that has
\* settled; a fetch that takes a slot after the failure, with no session and
\* no launch under way, starts a launch of its own; and a fetch whose launch
\* fails gets the error and ends its call
C21_PrestartFailure ==
    /\ [][(pc[Pre] = "gbAwait" /\ bstate'[awaiting[Pre]] = "failed")
            => /\ pc'[Pre] = "done"
               /\ pc'[Sig] = pc[Sig]
               /\ globalBrowser' = Null
               /\ ~browserInitializing'
               /\ browserInitPromise' = Null]_vars
    /\ [](\A p \in Procs : pc[p] = "gbAwait" => bstate[awaiting[p]] = "launching")
    /\ [][\A f \in Fetches :
            (bstate[1] = "failed" /\ globalBrowser = Null /\ Launching = {}
               /\ f \notin Holders /\ f \in Holders')
                  => /\ pc'[f] = "gbAwait"
                     /\ nLaunch' = nLaunch + 1
                     /\ awaiting'[f] = nLaunch'
                     /\ bstate'[awaiting'[f]] = "launching"]_vars
    /\ [][\A f \in Fetches :
            (pc[f] = "gbAwait" /\ bstate'[awaiting[f]] = "failed")
                  => pc'[f] = "idle" /\ f \notin Holders']_vars

\* C21 witness: the pre-start launch failed, the launch of a later fetch
\* failed too, and a fetch now awaits a third launch
C21_Witness ==
    /\ pc[Pre] = "done"
    /\ bstate[1] = "failed"
    /\ bstate[2] = "failed"
    /\ globalBrowser = Null
    /\ \E f \in Fetches : pc[f] = "gbAwait" /\ awaiting[f] = 3

\* C22: the process exits only when the shutdown sequence has run to its
\* end, and no browser is connected when it exits
C22_ShutdownBeforeExit ==
    Exited => /\ pc[Sig] = "sd_done"
              /\ Connected = {}

\* getBrowser hands a browser to fetch f in this step
Returned(f) == browser'[f] # Null /\ browser'[f] # browser[f]

\* the number of pages of browser b
PageCount(b) == Len(PagesList(St, b))

C24_FailedFetch ==
    /\ [][\A f \in Requests :
            /\ (rpc[f] = "fetch" /\ pageHtml[f] = "none" /\ pageHtml'[f] = "error")
                  => /\ pc'[f] \in {"fin_close", "idle"}
                     /\ \A k \in {1, 2} : /\ ~PageOpenNow(PageOf(f, k))'
                                          /\ PageOf(f, k) \notin activePages'
            /\ (pc[f] = "f_nav" /\ pc'[f] \notin {"f_nav", "f_tail", "f_chal", "r_closePage"})
                  => pageHtml'[f] = "error"
            /\ (pc[f] = "r_nav" /\ pc'[f] \notin {"r_nav", "f_race"})
                  => pageHtml'[f] = "error"
            /\ pageHtml[f] = "error"
                  => \/ pageHtml'[f] = "error" /\ pc'[f] \in {"fin_close", "idle"}
                     \/ /\ pc[f] = "idle" /\ pc'[f] = "idle"
                        /\ hosterLinks'[f] = <<>>
                        /\ rpc'[f] = "done"
                        /\ response'[f] = <<ErrorStream>>
                        /\ cache' = cache
                        /\ nLaunch' = nLaunch
                        /\ activeRequestCount' = activeRequestCount]_vars
    /\ [](activeRequestCount = Cardinality(Holders))

\* C24 witness: the relaunch of a fetch in its recovery failed; the call has
\* ended with the error, its slot free and its pages closed
C24_Witness ==
    \E f \in Requests :
        /\ rpc[f] = "fetch" /\ pageHtml[f] = "error" /\ pc[f] = "idle"
        /\ cloudflareChallengeDetected
        /\ activeRequestCount = 0

\* C27: a request for an imdb id whose key has an entry is answered in its
\* first step with exactly the streams of the entry, and that step takes no
\* slot and touches neither the browser pool nor the cache; the cache changes
\* only in the step in which a request for an imdb id got a stream from
\* Real-Debrid, and then the entry of its key becomes the streams it answers;
\* a request answered with nothing or with the error stream writes nothing,
\* no entry is empty or holds the error stream, and setCachedStreams with an
\* empty list returns the cache it was given
C27_Cache ==
    /\ [][\A f \in Requests :
            (rpc[f] = "none" /\ rpc'[f] # "none" /\ rkey'[f] \in DOMAIN cache)
               => /\ rpc'[f] = "done"
                  /\ response'[f] = cache[rkey'[f]]
                  /\ UNCHANGED <<activeRequestCount, pc, globalBrowser, activePages,
                                 browserInitializing, browserInitPromise, nLaunch,
                                 bstate, bpages, bpopups, cache>>]_vars
    /\ [][cache' # cache
            => \E f \in Requests :
                  /\ rpc[f] = "debrid" /\ rpc'[f] = "done"
                  /\ rkey[f] \in Keys
                  /\ response'[f] = <<RealStream(f)>>
                  /\ cache' = [x \in DOMAIN cache \cup {rkey[f]} |->
                                  IF x = rkey[f] THEN response'[f] ELSE cache[x]]]_vars
    /\ [][\A f \in Requests :
            (rpc[f] # "done" /\ rpc'[f] = "done"
               /\ response'[f] \in {<<>>, <<ErrorStream>>})
                  => cache' = cache]_vars
    /\ [](\A k \in DOMAIN cache :
             /\ Len(cache[k]) > 0
             /\ \A i \in 1..Len(cache[k]) : cache[k][i] # ErrorStream)
    /\ [](\A k \in Keys : setCachedStreams(cache, k, <<>>) = cache)

\* C27 witness: a request is answered from the cache with the stream another
\* request stored, while the other key has no entry
C27_Witness ==
    \E f \in Requests :
        /\ rpc[f] = "done"
        /\ rkey[f] \in DOMAIN cache
        /\ response[f] = cache[rkey[f]]
        /\ response[f] # <<RealStream(f)>>
        /\ DOMAIN cache # Keys

\* the first page of globalBrowser in state s is still its first page in t
FirstPageKept(s, t) ==
    LET b == s.globalBrowser
    IN Len(PagesList(s, b)) > 0
          => /\ Len(PagesList(t, b)) > 0
             /\ PagesList(t, b)[1] = PagesList(s, b)[1]

\* what a run of the reconciliation from state s to state t has done when it
\* read the page list of globalBrowser: no tracked page that was closed or
\* missing from the list is tracked any more, every untracked page of the
\* list beyond the first is closed, and the first page is still there
Reconciled(s, t) ==
    LET b == s.globalBrowser
        L == PagesList(s, b)
    IN /\ \A p \in s.activePages :
             (~PageOpen(s, p) \/ ~InList(L, p)) => p \notin t.activePages
       /\ \A i \in 2..Len(s.bpages[b]) :
             s.bpages[b][i] \notin s.activePages => ~InList(t.bpages[b], s.bpages[b][i])
       /\ t.bpopups[b] = IF Len(s.bpages[b]) = 0 /\ s.bpopups[b] > 0 THEN 1 ELSE 0
       /\ FirstPageKept(s, t)

\* C25 as stated: in every state in which the interval is set, every run of
\* the reconciliation clears activePages when globalBrowser is not connected,
\* and otherwise untracks the closed and the missing pages, closes the
\* untracked pages beyond the first and keeps the first page
C25_EveryRun ==
    periodicCleanupInterval =>
        \A pagesOk \in BOOLEAN :
            IF ~IsConnected(St, globalBrowser)
            THEN CleanupCallback(St, pagesOk).activePages = {}
            ELSE Reconciled(St, CleanupCallback(St, pagesOk))

\* C25 amended: a run clears activePages when globalBrowser is not connected;
\* when it is connected the run does the reconciliation, except that on a
\* browser that is being closed the run may fail to read the page list and
\* then changes nothing; in no case is the first page closed
C25_Reconciliation ==
    periodicCleanupInterval =>
        \A pagesOk \in BOOLEAN :
            IF ~IsConnected(St, globalBrowser)
            THEN CleanupCallback(St, pagesOk).activePages = {}
            ELSE /\ \/ Reconciled(St, CleanupCallback(St, pagesOk))
                    \/ /\ bstate[globalBrowser] = "closing"
                       /\ CleanupCallback(St, pagesOk) = St
                 /\ FirstPageKept(St, CleanupCallback(St, pagesOk))

\* C25 witness: the interval is set and a run has all its work to do: the
\* live session has pages the engine opened, and a tracked page that is not
\* in its page list
C25_Witness ==
    /\ periodicCleanupInterval
    /\ globalBrowser # Null
    /\ bstate[globalBrowser] = "live"
    /\ bpopups[globalBrowser] > 0
    /\ \E p \in activePages : ~InList(PagesList(St, globalBrowser), p)

\* C26: once the race of a recovered fetch has resolved in the visible
\* session (the challenge is cleared, the flag reset and the cookie file
\* there), a browser that getBrowser hands to another fetch is headless
C26_HeadlessAfterClear ==
    [][\A f \in Fetches, g \in Fetches :
         (/\ f # g
          /\ needsVisibleBrowser[f] /\ pc[f] \in {"f_tail", "fin_close"}
          /\ hasCookies /\ ~cloudflareChallengeDetected
          /\ Returned(g))
            => bheadless'[browser'[g]]]_vars

\* C28: a fetch that polls in waitForBrowserSlot eventually holds a slot
C28_SlotLiveness ==
    \A f \in Fetches : (pc[f] = "waitSlot") ~> (f \in Holders)

\* how far a call has come on its way through fetchMultiUpPage: the place of
\* its suspension in the order of the code, the recovery of lines 487-566
\* lying between the first navigation and the waits of lines 575-599
Rank(f) ==
    CASE pc[f] = "gbClose"        -> 1
      [] pc[f] = "gbAwait"        -> IF needsVisibleBrowser[f] THEN 9 ELSE 2
      [] pc[f] = "f_cleanup"      -> 3
      [] pc[f] = "f_newPage"      -> 4
      [] pc[f] = "f_nav"          -> 5
      [] pc[f] = "r_closePage"    -> 7
      [] pc[f] = "r_browserClose" -> 8
      [] pc[f] = "r_newPage"      -> 10
      [] pc[f] = "r_nav"          -> 11
      [] pc[f] = "f_race"         -> 12
      [] pc[f] = "f_settle"       -> 13
      [] pc[f] = "f_chal"         -> 13
      [] pc[f] = "f_tail"         -> 14
      [] pc[f] = "fin_close"      -> 15
      [] OTHER                    -> 16

\* the launch budget of the model is used up
BudgetSpent == nLaunch >= MaxLaunch

\* the call can go on.  At a suspension other than the three below it awaits
\* an operation on its own page or browser.newPage(), which completes or
\* times out; at these it awaits a launch, which must still be running, or
\* the close of a browser, which must be closing or closed.
CanGoOn(f) ==
    \/ pc[f] \notin {"gbAwait", "gbClose", "r_browserClose"}
    \/ pc[f] = "gbAwait" /\ ENABLED LaunchResolves(awaiting[f])
    \/ pc[f] = "gbClose"
         /\ (ENABLED BrowserCloses(awaiting[f]) \/ ENABLED GbCloseResume(f))
    \/ pc[f] = "r_browserClose"
         /\ (ENABLED BrowserCloses(browser[f]) \/ ENABLED RecoveryBrowserClosed(f))

\* C29: a call that holds a slot can always go on, every step it takes
\* brings it forward in the code, never back, and it ends with its page
\* untracked and closed and its slot returned
C29_Terminates ==
    /\ [](\A f \in Holders : BudgetSpent \/ CanGoOn(f))
    /\ [][\A f \in Holders :
            /\ Rank(f)' >= Rank(f)
            /\ pc'[f] # pc[f] => Rank(f)' > Rank(f)
            /\ pc'[f] = "idle" =>
                  /\ activeRequestCount' < activeRequestCount
                  /\ page[f] # Null =>
                        /\ PageOf(f, page[f]) \notin activePages'
                        /\ \A b \in Browsers :
                              ~InList(bpages'[b], PageOf(f, page[f]))]_vars

\* a call that recovered and whose challenge race timed out is in its
\* finally block
C29_Witness ==
    \E f \in Fetches :
        /\ pc[f] = "fin_close"
        /\ needsVisibleBrowser[f]
        /\ cloudflareChallengeDetected
        /\ ~BudgetSpent

\* session k has taken the place of session b: b is no longer the session
\* reference, and k is the live session or the launch in progress
Replaced(b, k) ==
    /\ k # b
    /\ globalBrowser # b
    /\ \/ bstate[k] = "live" /\ globalBrowser = k
       \/ bstate[k] = "launching" /\ browserInitializing /\ browserInitPromise = k

\* C30: the disconnect event of a closed session that has been replaced
\* leaves the session reference, the initialization flag and promise, and
\* the tracked pages of the new session as they are
C30_StaleDisconnect ==
    [][\A b \in Browsers, k \in Browsers :
         (bstate[b] = "closing" /\ bstate'[b] = "dead" /\ Replaced(b, k))
            => /\ globalBrowser' = globalBrowser
               /\ browserInitializing' = browserInitializing
               /\ browserInitPromise' = browserInitPromise
               /\ \A pg \in activePages :
                     InList(bpages[k], pg) => pg \in activePages']_vars

\* C31: a live session has its periodic reconciliation scheduled
C31_CleanupScheduled ==
    \A b \in Browsers :
        (bstate[b] = "live" /\ globalBrowser = b) => periodicCleanupInterval

\* C32: a signal that comes while gracefulShutdown is closing pages or the
\* browser does not make the process exit with the session still connected
C32_SecondSignal ==
    [][(pc[Sig] \in {"sd_pages", "sd_browser"} /\ Exited')
          => \A b \in Browsers :
                b = globalBrowser => bstate'[b] \notin {"live", "closing"}]_vars

\* C33: every tracked page is an open page of the current session; nothing
\* is tracked when there is no session, nor when no fetch is in flight
C33_TrackedPages ==
    /\ \A pg \in activePages :
          /\ globalBrowser # Null
          /\ InList(bpages[globalBrowser], pg)
    /\ Holders = {} => activePages = {}

\* C34: a fetch that did not itself recover and whose challenge wait
\* resolves on clean content resets a challenge flag that is set
C34_FlagResetByAnyFetch ==
    [][\A f \in Fetches :
         (/\ pc[f] = "f_tail" /\ ~needsVisibleBrowser[f]
          /\ PageOpenNow(PageOf(f, page[f]))
          /\ cloudflareChallengeDetected
          /\ pc'[f] \in {"fin_close", "idle"})
            => ~cloudflareChallengeDetected']_vars

\* what a call of cleanupBrowserPages from state s to state t has left alone:
\* the registry, the session reference, the admission counter, every other
\* browser, and every page of globalBrowser that is tracked or is its first
CleanupFrame(s, t) ==
    LET b == s.globalBrowser
    IN /\ t.activePages = s.activePages
       /\ t.globalBrowser = s.globalBrowser
       /\ t.activeRequestCount = s.activeRequestCount
       /\ t.bstate = s.bstate
       /\ \A c \in Browsers \ {b} :
             t.bpages[c] = s.bpages[c] /\ t.bpopups[c] = s.bpopups[c]
       /\ b # Null =>
             /\ \A i \in 1..Len(s.bpages[b]) :
                   ~InList(t.bpages[b], s.bpages[b][i])
                      => /\ s.bpages[b][i] \notin s.activePages
                         /\ i > 1
                         /\ IsConnected(s, b)
             /\ Len(t.bpages[b]) <= Len(s.bpages[b])
             /\ t.bpopups[b] <= s.bpopups[b]
             /\ FirstPageKept(s, t)

\* C35: in every state a call of cleanupBrowserPages closes only untracked
\* pages of globalBrowser beyond the first and writes nothing else; when the
\* page list cannot be read the call changes nothing and returns
C35_CleanupFrame ==
    \A pagesOk \in BOOLEAN :
        /\ CleanupFrame(St, cleanupBrowserPages(St, pagesOk))
        /\ (~IsConnected(St, globalBrowser)
              \/ (~pagesOk /\ bstate[globalBrowser] = "closing"))
               => cleanupBrowserPages(St, pagesOk) = St

\* C35 witness: the live session has a tracked page beyond the first and
\* pages the engine opened, which a call closes
C35_Witness ==
    /\ globalBrowser # Null
    /\ bstate[globalBrowser] = "live"
    /\ bpopups[globalBrowser] > 0
    /\ \E i \in 2..Len(bpages[globalBrowser]) :
          bpages[globalBrowser][i] \in activePages
    /\ cleanupBrowserPages(St, TRUE).bpopups[globalBrowser] = 0

\* C36: the timeout of a request answers the empty list and leaves the fetch
\* of the request as it is, its slot held and its page open; the slot
\* counter always equals the number of fetches that hold a slot, a fetch
\* left behind by its request included
C36_TimeoutKeepsFetch ==
    /\ [](activeRequestCount = Cardinality(Holders))
    /\ [][\A f \in Requests :
            (timedOut'[f] /\ ~timedOut[f])
               => /\ response'[f] = <<>>
                  /\ activeRequestCount' = activeRequestCount
                  /\ pc' = pc /\ page' = page /\ browser' = browser
                  /\ bpages' = bpages /\ activePages' = activePages
                  /\ rpc' = rpc]_vars

\* C36 witness: the request timed out while its fetch was navigating; the
\* fetch has gone on and is closing its page in its finally block, its slot
\* still held
C36_Witness ==
    \E f \in Requests :
        /\ timedOut[f] /\ rpc[f] = "fetch"
        /\ pc[f] = "fin_close"
        /\ response[f] = <<>>
        /\ activeRequestCount >= 1

\* C37: acquireLock has returned true to at most one manager that runs
C37_MutualExclusion == Cardinality({m \in Managers : lpc[m] = "held"}) <= 1

\* C39: the close handler of a child that the health check has killed and
\* is about to replace sets no retry or restart timer
C39_KilledChildNoRetry ==
    [][\A i \in Starts :
          (inv[i].hc = "restarting" /\ inv[i].lt = "dying" /\ inv'[i].lt = "closed")
              => inv'[i].timer = "none"]_vars

\* C38: once a shutdown signal has been handled, no close handler sets a
\* retry or restart timer
C38_NoRetryAfterSignal ==
    [][signalled => \A i \in Starts :
                       inv'[i].timer \in {"retry", "restart"} => inv'[i].timer = inv[i].timer]_vars

====
